---- MODULE Spec2Model ----
(***************************************************************************)
(* Model of BricKuberLib (Projects/BricKuber/brickuber_lib.py): the        *)
(* orientation-tracking move dispatcher and the actuation layer of a       *)
(* Rubik's cube solving robot.                                             *)
(*                                                                         *)
(* The library is single threaded (Spec); SpecThreads runs two Move calls  *)
(* on one instance with a thread switch allowed between any two            *)
(* statements.  A public method is run as a stack of                       *)
(* pending statements (`stack`): the head is the statement executed next,  *)
(* a call replaces the head by the statements of the callee's body.  The   *)
(* BrickPi3 driver is the environment: every encoder read returns one of a *)
(* small set of readings, every command is appended to `cmdlog`.  One      *)
(* BricKuberLib instance is modelled (the class attribute CCO and the      *)
(* instance attribute CCO then name the same list).                        *)
(***************************************************************************)
EXTENDS Integers, Sequences, FiniteSets, TLC

VARIABLES
    robot_style,        \* style of the constructed instance, "none" before construction
    CCO,                \* Current Cube Orientation: sides U, F, R
    TurnTableTarget,    \* self.TurnTableTarget
    hasTarget,          \* whether the attribute TurnTableTarget has been assigned
    stack,              \* pending statements of the running public method
    call,               \* name of the public method running (or last run)
    raised,             \* exception that ended the last public method, "none" otherwise
    pending,            \* Moves: tokens of cmds.split() not yet iterated
    cmd,                \* Move: parameter cmd
    DegreesToTurnFace,  \* Move: local
    FaceToTurn,         \* Move: local, Unbound when never assigned
    tmp,                \* Move: local
    encoder,            \* run_to_position: local
    EncoderLast,        \* home_all: local
    EncoderNow,         \* home_all: local
    cmdlog,             \* BrickPi3 commands issued by the running public method
    acts,               \* history: calls made directly by the running Move
    cco0,               \* history: CCO when the running Move was entered
    dispatched,         \* history: tokens whose Move completed in the running Moves
    cmds,               \* history: argument of the Moves call running or last run, empty for other methods
    style_arg,          \* history: argument of the last constructor call
    sumDeg,             \* history: sum of deg over the spin calls completed since homing
    lastOF,             \* history: <<f, OF(f)>> of the last OF evaluated by Move
    ccoCall,            \* history: CCO when the public method running (or last run) was called
    target0,            \* history: TurnTableTarget when that public method was called
    spin_arg,           \* history: <<deg, overshoot>> of a spin called directly, empty otherwise
    other,              \* frames and locals of a second thread that is not running now, empty without one
    preempted,          \* history: a thread was switched out before its Move had returned
    seeks               \* history: turntable positions commanded since the public method was called

vars == <<robot_style, CCO, TurnTableTarget, hasTarget, stack, call, raised, pending,
          cmd, DegreesToTurnFace, FaceToTurn, tmp, encoder, EncoderLast, EncoderNow,
          cmdlog, acts, cco0, dispatched, cmds, style_arg, sumDeg, lastOF,
          ccoCall, target0, spin_arg, other, preempted, seeks>>

----------------------------------------------------------------------------
(* Bounds and input sets                                                   *)

\* public methods that turn the table are started only while TurnTableTarget
\* is at most MaxQuarterTurns quarter turns away from the homed position
MaxQuarterTurns == 1

\* encoder readings polled by run_to_position, as offsets from the floor of the position
ReadingOffsets == {-4, -3, 3, 4}

\* raw grip encoder readings polled by home_all
HomeReadings == {10, 20}

\* robot_style arguments given to the constructor
Styles == {"NXT1", "EV3", "NXT2"}

\* deg and overshoot arguments of direct spin calls
SpinDegrees == {-90, 0, 90}
SpinOvershoots == {-22, 0, 22}

\* arguments <<port, position>> of run_to_position called directly
RunToPositionArgs == {<<0, -130>>, <<1, 90>>}

\* tokens given to the Move calls of two threads
ThreadTokens == {<<"B">>, <<"R">>}

\* cmds arguments given to Moves, as sequences of characters
CmdStrings ==
    { <<>>,
      <<"U", "2">>,
      <<"F", "'">>,
      <<"R">>,
      <<"D">>,
      <<"B", "2">>,
      <<"L", "'">>,
      <<"F", "2", "'">>,
      <<"L", "U">>,
      <<"X", "2">>,
      <<"D", " ", "X", " ", "F">>,
      <<"R", " ", "U", "'">>,
      <<" ", "D", " ", " ", "L", " ">>,
      <<"U", " ", "D">>,
      <<"F", " ", "D">>,
      <<"R", " ", "F">>,
      <<"B", " ", "U">>,
      <<"L", " ", "F">> }

----------------------------------------------------------------------------
(* Constants of the class and of the calibration profiles                  *)

MOTOR_GRAB == 0
MOTOR_TURN == 1

MOTOR_GRAB_POSITION_REST      == -35
MOTOR_GRAB_POSITION_FLIP_PUSH == -90
MOTOR_GRAB_POSITION_GRAB      == -130
MOTOR_GRAB_POSITION_FLIP      == -240

MOTOR_GRAB_SPEED_GRAB == 400
MOTOR_GRAB_SPEED_FLIP == 600
MOTOR_GRAB_SPEED_REST == 400

\* a constructor whose else branch accepts every style
Supported_Any(style) == TRUE

\* __init__: the styles that have a calibration profile
Supported(style) == style \in {"NXT1", "EV3"}

PinionOf(style) == IF style = "NXT1" THEN 24 ELSE 12
GearOf(style)   == IF style = "NXT1" THEN 56 ELSE 36

TurnTablePinion == PinionOf(robot_style)
TurnTableGear   == GearOf(robot_style)

RecoverFace == 22
Tolerance == 3

Faces == 0..5
Unbound == -1

----------------------------------------------------------------------------
(* Pure helpers                                                            *)

Abs(x) == IF x < 0 THEN -x ELSE x

\* OF with the comparison off by one
OF_OffByOne(f) == IF f <= 3 THEN f + 3 ELSE f - 3

\* Return Opposite Face.
OF(f) == IF f < 3 THEN f + 3 ELSE f - 3

\* str.find(ch): lowest index of ch in s, -1 when absent
find(s, ch) ==
    IF \E i \in 1..Len(s) : s[i] = ch
    THEN (CHOOSE i \in 1..Len(s) : s[i] = ch /\ \A j \in 1..(i - 1) : s[j] # ch) - 1
    ELSE -1

Whitespace == {" "}

\* str.split(): the maximal runs of non-whitespace characters, in order
RECURSIVE SplitFrom(_, _, _)
SplitFrom(s, i, word) ==
    IF i > Len(s)
    THEN IF word = <<>> THEN <<>> ELSE <<word>>
    ELSE IF s[i] \in Whitespace
         THEN IF word = <<>>
              THEN SplitFrom(s, i + 1, <<>>)
              ELSE <<word>> \o SplitFrom(s, i + 1, <<>>)
         ELSE SplitFrom(s, i + 1, Append(word, s[i]))

\* a split that emits a word only when whitespace follows it
split_DropLast(s) ==
    LET t == SplitFrom(s, 1, <<>>)
    IN  IF s # <<>> /\ s[Len(s)] \notin Whitespace THEN SubSeq(t, 1, Len(t) - 1) ELSE t

split(s) == SplitFrom(s, 1, <<>>)

\* the parse with the test for 2 before the test for '
ParseDegrees_TwoFirst(c) ==
    IF find(c, "2") # -1 THEN -180
    ELSE IF find(c, "'") # -1 THEN 90
    ELSE -90

\* Move: the rotation selected by the token
ParseDegrees(c) ==
    IF find(c, "'") # -1 THEN 90
    ELSE IF find(c, "2") # -1 THEN -180
    ELSE -90
\* the parse with FaceToTurn preset to the Up face
ParseFace_PresetUp(c) ==
    IF find(c, "U") # -1 THEN 0
    ELSE IF find(c, "F") # -1 THEN 1
    ELSE IF find(c, "R") # -1 THEN 2
    ELSE IF find(c, "D") # -1 THEN 3
    ELSE IF find(c, "B") # -1 THEN 4
    ELSE IF find(c, "L") # -1 THEN 5
    ELSE 0

\* Move: the face selected by the token; Unbound when no branch assigns FaceToTurn
ParseFace(c) ==
    IF find(c, "U") # -1 THEN 0
    ELSE IF find(c, "F") # -1 THEN 1
    ELSE IF find(c, "R") # -1 THEN 2
    ELSE IF find(c, "D") # -1 THEN 3
    ELSE IF find(c, "B") # -1 THEN 4
    ELSE IF find(c, "L") # -1 THEN 5
    ELSE Unbound

\* the loop condition with the ends of the window excluded
OutsideWindow_Inclusive(enc, num, den, tolerance) ==
    \/ enc * den >= num + tolerance * den
    \/ enc * den <= num - tolerance * den

\* run_to_position: the loop condition, for the position num/den
OutsideWindow(enc, num, den, tolerance) ==
    \/ enc * den > num + tolerance * den
    \/ enc * den < num - tolerance * den

\* readings the encoder may return while the motor seeks position num/den
Readings(num, den) == { (num \div den) + d : d \in ReadingOffsets }
\* the turntable commanded in degrees of the table instead of the motor
SpinSeekNum_Ungeared(target, gear) == target

\* spin: the numerator of TurnTableTarget * TurnTableGear / TurnTablePinion
SpinSeekNum(target, gear) == target * gear

\* the grip zero put at the stall reading itself
HomeOffset_AtStall(now) == now

\* home_all: the encoder offset that puts the grip zero 25 units before the stall reading
HomeOffset(now) == now - 25

\* the overshoot applied as given, whatever the direction of travel
SpinOvershoot_AsGiven(deg, overshoot) == overshoot

\* spin: the overshoot applied, in the direction of travel
SpinOvershoot(deg, overshoot) == IF deg < 0 THEN -overshoot ELSE overshoot

\* spin: the target of the first seek
SpinFirstTarget(target, deg, o) == target - (deg + o)

\* the second seek re-adding the magnitude of the overshoot
SpinSecondTarget_Unsigned(target, o) == target + Abs(o)

\* spin: the target of the second seek
SpinSecondTarget(target, o) == target + o

----------------------------------------------------------------------------
(* Statements                                                              *)

Ins(op, a, b, c, by) == [c |-> c, op |-> op, a |-> a, b |-> b, by |-> by]

\* a call of run_to_position(port, num/den) made by `by`
RunTo(port, num, den, by) == Ins("run_to_position", port, num, den, by)
RunToGrab(position, by) == RunTo(MOTOR_GRAB, position, 1, by)

SpinCall(deg, overshoot, by) == Ins("spin", deg, overshoot, 0, by)
FlipCall(release, by) == Ins("flip", 0, release, 0, by)
GrabCall(by) == Ins("grab", 0, 0, 0, by)
ReleaseCall(by) == Ins("release", 0, 0, 0, by)

\* self.CCO[i] = self.OF(self.CCO[j])
SetOF(i, j) == Ins("CCO_OF", i, j, 0, "Move")
\* tmp = self.CCO[j]
SetTmp(j) == Ins("TMP", 0, j, 0, "Move")
\* self.CCO[i] = self.CCO[j]
SetCopy(i, j) == Ins("CCO_COPY", i, j, 0, "Move")
\* self.CCO[i] = self.OF(tmp)
SetOFTmp(i) == Ins("CCO_OFTMP", i, 0, 0, "Move")

\* the flip update written for the opposite tumbling direction
FlipUpdate_Reversed == <<SetTmp(1), SetCopy(1, 0), SetOFTmp(0)>>

\* the orientation update of one flip
FlipUpdate == <<SetTmp(0), SetCopy(0, 1), SetOFTmp(1)>>
\* the top branch updating the Up entry only
BodyTop_UpOnly == <<FlipCall(0, "Move"), FlipCall(0, "Move"), SetOF(0, 0)>>

\* the top branch with an index slip in its second assignment
BodyTop_IndexSlip == <<FlipCall(0, "Move"), FlipCall(0, "Move"), SetOF(0, 0), SetOF(1, 0)>>

\* target is top: flip twice
BodyTop == <<FlipCall(0, "Move"), FlipCall(0, "Move"), SetOF(0, 0), SetOF(1, 1)>>
\* the front branch without the update for the half turn of the table
BodyFront_NoSpinUpdate ==
    <<ReleaseCall("Move"), SpinCall(180, 0, "Move"), FlipCall(0, "Move")>> \o FlipUpdate

\* target is front: rotate 180 and flip
BodyFront ==
    <<ReleaseCall("Move"), SpinCall(180, 0, "Move"), SetOF(1, 1), SetOF(2, 2),
      FlipCall(0, "Move")>> \o FlipUpdate

\* the right branch turning the table the other way
BodyRight_WrongWay ==
    <<ReleaseCall("Move"), SpinCall(90, 0, "Move"), SetTmp(2), SetCopy(2, 1), SetOFTmp(1),
      FlipCall(0, "Move")>> \o FlipUpdate

\* target is right: rotate -90 and flip
BodyRight ==
    <<ReleaseCall("Move"), SpinCall(-90, 0, "Move"), SetTmp(2), SetCopy(2, 1), SetOFTmp(1),
      FlipCall(0, "Move")>> \o FlipUpdate

\* target is bottom: don't do anything
BodyBottom == <<>>

\* target is back: flip
BodyBack == <<FlipCall(0, "Move")>> \o FlipUpdate
\* the left branch turning the table without releasing the cube first
BodyLeft_NoRelease ==
    <<SpinCall(90, 0, "Move"), SetTmp(1), SetCopy(1, 2), SetOFTmp(2),
      FlipCall(0, "Move")>> \o FlipUpdate

\* target is left: rotate 90 and flip
BodyLeft ==
    <<ReleaseCall("Move"), SpinCall(90, 0, "Move"), SetTmp(1), SetCopy(1, 2), SetOFTmp(2),
      FlipCall(0, "Move")>> \o FlipUpdate

AssignOps == {"CCO_OF", "TMP", "CCO_COPY", "CCO_OFTMP"}

\* the effect of one assignment on the orientation list and on tmp
AssignEffect(ins, st) ==
    CASE ins.op = "CCO_OF" ->
            [st EXCEPT !.cco = [st.cco EXCEPT ![ins.a + 1] = OF(st.cco[ins.b + 1])]]
      [] ins.op = "TMP" ->
            [st EXCEPT !.tmp = st.cco[ins.b + 1]]
      [] ins.op = "CCO_COPY" ->
            [st EXCEPT !.cco = [st.cco EXCEPT ![ins.a + 1] = st.cco[ins.b + 1]]]
      [] ins.op = "CCO_OFTMP" ->
            [st EXCEPT !.cco = [st.cco EXCEPT ![ins.a + 1] = OF(st.tmp)]]
      [] OTHER -> st

\* a flip that also writes its orientation update
FlipBody_Tracks(release) ==
    << RunToGrab(MOTOR_GRAB_POSITION_FLIP_PUSH, "flip"),
       GrabCall("flip"),
       Ins("set_motor_limits", MOTOR_GRAB, MOTOR_GRAB_SPEED_FLIP, 1, "flip"),
       RunToGrab(MOTOR_GRAB_POSITION_FLIP, "flip"),
       RunToGrab(MOTOR_GRAB_POSITION_FLIP_PUSH, "flip") >>
    \o FlipUpdate
    \o (IF release = 1 THEN <<ReleaseCall("flip")>> ELSE <<>>)

\* flip: the statements of its body; release is 1 for True and 0 for False
FlipBody(release) ==
    << RunToGrab(MOTOR_GRAB_POSITION_FLIP_PUSH, "flip"),
       GrabCall("flip"),
       Ins("set_motor_limits", MOTOR_GRAB, MOTOR_GRAB_SPEED_FLIP, 1, "flip"),
       RunToGrab(MOTOR_GRAB_POSITION_FLIP, "flip"),
       RunToGrab(MOTOR_GRAB_POSITION_FLIP_PUSH, "flip") >>
    \o (IF release = 1 THEN <<ReleaseCall("flip")>> ELSE <<>>)

\* the branch of Move's if/elif chain taken for face f in orientation cco
DispatchRow(f, cco) ==
    IF f = cco[1] THEN "top"
    ELSE IF f = cco[2] THEN "front"
    ELSE IF f = cco[3] THEN "right"
    ELSE IF f = OF(cco[1]) THEN "bottom"
    ELSE IF f = OF(cco[2]) THEN "back"
    ELSE IF f = OF(cco[3]) THEN "left"
    ELSE "none"

RowBody(row) ==
    CASE row = "top" -> BodyTop
      [] row = "front" -> BodyFront
      [] row = "right" -> BodyRight
      [] row = "bottom" -> BodyBottom
      [] row = "back" -> BodyBack
      [] row = "left" -> BodyLeft
      [] OTHER -> <<>>

\* a face turn after which the tracker follows the spin
FaceTurnBody_Tracked(deg) ==
    <<GrabCall("Move"), SpinCall(deg, RecoverFace, "Move"),
      SetTmp(1), SetCopy(1, 2), SetOFTmp(2)>>

\* the face turn that ends every Move
FaceTurnBody(deg) == <<GrabCall("Move"), SpinCall(deg, RecoverFace, "Move")>>

----------------------------------------------------------------------------
(* State                                                                   *)

Top == Head(stack)
Cont == Tail(stack)
Idle == stack = <<>>

\* a BrickPi3 command with a rational argument num/den
Command(name, port, num, den) == <<name, port, num, den>>

\* a second thread exists
Threaded == other # <<>>

\* the command log after one more command; the order of the commands is
\* recorded for single-threaded runs only
Log(entry) == IF Threaded THEN cmdlog ELSE Append(cmdlog, entry)

Init ==
    /\ robot_style = "none"
    /\ CCO = <<0, 1, 2>>
    /\ TurnTableTarget = 0
    /\ hasTarget = FALSE
    /\ stack = <<>>
    /\ call = "none"
    /\ raised = "none"
    /\ pending = <<>>
    /\ cmd = <<>>
    /\ DegreesToTurnFace = 0
    /\ FaceToTurn = Unbound
    /\ tmp = Unbound
    /\ encoder = 0
    /\ EncoderLast = 0
    /\ EncoderNow = 0
    /\ cmdlog = <<>>
    /\ acts = <<>>
    /\ cco0 = <<0, 1, 2>>
    /\ dispatched = <<>>
    /\ cmds = <<>>
    /\ style_arg = "none"
    /\ sumDeg = 0
    /\ lastOF = <<>>
    /\ ccoCall = <<0, 1, 2>>
    /\ target0 = 0
    /\ spin_arg = <<>>
    /\ other = <<>>
    /\ preempted = FALSE
    /\ seeks = {}

MoveLocals == <<pending, cmd, DegreesToTurnFace, FaceToTurn, tmp>>
PollLocals == <<encoder, EncoderLast, EncoderNow>>
Robot == <<robot_style, CCO, TurnTableTarget, hasTarget>>
History == <<acts, cco0, dispatched, sumDeg, lastOF>>
Threads == <<other, preempted>>
Args == <<cmds, style_arg, ccoCall, target0, spin_arg, Threads, seeks>>

\* a public method is entered: the histories of the previous one are dropped
Enter(name, body) ==
    /\ Idle
    /\ call' = name
    /\ raised' = "none"
    /\ stack' = body
    /\ acts' = <<>>
    /\ cco0' = CCO
    /\ dispatched' = <<>>
    /\ lastOF' = <<>>
    /\ ccoCall' = CCO
    /\ target0' = TurnTableTarget
    /\ seeks' = {}
    /\ UNCHANGED <<sumDeg, Threads>>

\* an exception leaves every frame of the running public method
Raise(exc) ==
    /\ raised' = exc
    /\ stack' = <<>>
    /\ pending' = <<>>
    /\ cmd' = <<>>
    /\ DegreesToTurnFace' = 0
    /\ FaceToTurn' = Unbound
    /\ tmp' = Unbound

----------------------------------------------------------------------------
(* Public methods, called while no other is running                        *)

\* BricKuberLib(robot_style)
Construct(style) ==
    /\ robot_style = "none"
    /\ IF Supported(style)
       THEN /\ Enter("__init__", <<Ins("home_all", 0, 0, 0, "__init__")>>)
            /\ robot_style' = style
            /\ style_arg' = style
            /\ UNCHANGED <<cmds, spin_arg>>
            /\ cmdlog' = <<Command("set_motor_limits", MOTOR_TURN,
                                   500 * GearOf(style), PinionOf(style))>>
            /\ UNCHANGED <<CCO, TurnTableTarget, hasTarget, MoveLocals, PollLocals>>
       ELSE /\ Idle
            /\ call' = "__init__"
            /\ raised' = "ValueError"
            /\ style_arg' = style
            /\ UNCHANGED <<cmds, ccoCall, target0, spin_arg, Threads, seeks>>
            /\ UNCHANGED <<Robot, stack, MoveLocals, PollLocals, cmdlog, History>>
\* a home_all that starts by putting the class value back into CCO
CallHomeAll_Reinit ==
    /\ robot_style # "none"
    /\ Enter("home_all", <<Ins("home_all", 0, 0, 0, "api")>>)
    /\ cmdlog' = <<>>
    /\ CCO' = <<0, 1, 2>>
    /\ UNCHANGED <<robot_style, TurnTableTarget, hasTarget, MoveLocals, PollLocals>>
    /\ cmds' = <<>>
    /\ spin_arg' = <<>>
    /\ UNCHANGED style_arg

CallHomeAll ==
    /\ robot_style # "none"
    /\ Enter("home_all", <<Ins("home_all", 0, 0, 0, "api")>>)
    /\ cmdlog' = <<>>
    /\ UNCHANGED <<Robot, MoveLocals, PollLocals>>
    /\ cmds' = <<>>
    /\ spin_arg' = <<>>
    /\ UNCHANGED style_arg

CallSpin(deg, overshoot) ==
    /\ robot_style # "none"
    /\ Abs(TurnTableTarget) <= 90 * MaxQuarterTurns
    /\ Enter("spin", <<SpinCall(deg, overshoot, "api")>>)
    /\ cmdlog' = <<>>
    /\ UNCHANGED <<Robot, MoveLocals, PollLocals>>
    /\ cmds' = <<>>
    /\ spin_arg' = <<deg, overshoot>>
    /\ UNCHANGED style_arg

CallMoves(string) ==
    /\ robot_style # "none"
    /\ Abs(TurnTableTarget) <= 90 * MaxQuarterTurns
    /\ Enter("Moves", <<Ins("Moves_for", 0, 0, 0, "api")>>)
    /\ cmds' = string
    /\ spin_arg' = <<>>
    /\ pending' = split(string)
    /\ UNCHANGED style_arg
    /\ cmdlog' = <<>>
    /\ UNCHANGED <<Robot, cmd, DegreesToTurnFace, FaceToTurn, tmp, PollLocals>>
\* the scan with its two turns of the table exchanged
ScanBody_TurnsExchanged ==
    LET by == "ReadCubeColors"
        Cam(f) == Ins("CameraReadFaceColors", f, 0, 0, by)
    IN  <<ReleaseCall(by), Cam(0),
          FlipCall(1, by), Cam(1),
          FlipCall(1, by), Cam(3),
          SpinCall(-90, 0, by), FlipCall(1, by), Cam(2),
          SpinCall(90, 0, by), FlipCall(1, by), Cam(4),
          FlipCall(1, by), Cam(5),
          Ins("CCO_SCAN", 0, 0, 0, by)>>

\* the statements of ReadCubeColors up to the assignment of CCO; the camera
\* reads name the faces top, front, bottom, right, back, left as 0, 1, 3, 2, 4, 5
ScanBody ==
    LET by == "ReadCubeColors"
        Cam(f) == Ins("CameraReadFaceColors", f, 0, 0, by)
    IN  <<ReleaseCall(by), Cam(0),
          FlipCall(1, by), Cam(1),
          FlipCall(1, by), Cam(3),
          SpinCall(90, 0, by), FlipCall(1, by), Cam(2),
          SpinCall(-90, 0, by), FlipCall(1, by), Cam(4),
          FlipCall(1, by), Cam(5),
          Ins("CCO_SCAN", 0, 0, 0, by)>>

CallReadCubeColors ==
    /\ robot_style # "none"
    /\ Abs(TurnTableTarget) <= 90 * MaxQuarterTurns
    /\ Enter("ReadCubeColors", ScanBody)
    /\ cmdlog' = <<>>
    /\ UNCHANGED <<Robot, MoveLocals, PollLocals>>
    /\ cmds' = <<>>
    /\ spin_arg' = <<>>
    /\ UNCHANGED style_arg

\* a method that takes no part in the Moves, spin and scan histories is called
CallDirect(name, body) ==
    /\ robot_style # "none"
    /\ Enter(name, body)
    /\ cmdlog' = <<>>
    /\ UNCHANGED <<Robot, MoveLocals, PollLocals>>
    /\ cmds' = <<>>
    /\ spin_arg' = <<>>
    /\ UNCHANGED style_arg

CallFlip(release) == CallDirect("flip", <<FlipCall(release, "api")>>)

CallGrab == CallDirect("grab", <<GrabCall("api")>>)

CallRelease == CallDirect("release", <<ReleaseCall("api")>>)

CallRunToPosition(port, position) ==
    CallDirect("run_to_position", <<RunTo(port, position, 1, "api")>>)

----------------------------------------------------------------------------
(* Statements of the running public method                                 *)

\* home_all, up to the first test of the stall loop
StepHomeAll ==
    /\ ~Idle /\ Top.op = "home_all"
    /\ cmdlog' = Append(cmdlog, Command("set_motor_power", MOTOR_GRAB, 15, 1))
    /\ EncoderLast' \in HomeReadings
    /\ EncoderNow' \in HomeReadings
    /\ stack' = <<Ins("home_while", 0, 0, 0, Top.by)>> \o Cont
    /\ UNCHANGED <<Robot, call, raised, MoveLocals, encoder, History>>
    /\ UNCHANGED Args

\* home_all: the stall loop and the statements after it, up to the call of spin(0)
StepHomeWhile ==
    /\ ~Idle /\ Top.op = "home_while"
    /\ IF EncoderNow # EncoderLast
       THEN /\ EncoderLast' = EncoderNow
            /\ EncoderNow' \in HomeReadings
            /\ UNCHANGED <<TurnTableTarget, hasTarget, stack, cmdlog, sumDeg>>
       ELSE /\ \E turn \in HomeReadings :
                cmdlog' = cmdlog \o
                    << Command("offset_motor_encoder", MOTOR_GRAB, HomeOffset(EncoderNow), 1),
                       Command("set_motor_position", MOTOR_GRAB, MOTOR_GRAB_POSITION_REST, 1),
                       Command("offset_motor_encoder", MOTOR_TURN, turn, 1) >>
            /\ TurnTableTarget' = 0
            /\ hasTarget' = TRUE
            /\ sumDeg' = 0
            /\ EncoderLast' = 0
            /\ EncoderNow' = 0
            /\ stack' = <<SpinCall(0, 0, "home_all")>> \o Cont
    /\ UNCHANGED <<robot_style, CCO, call, raised, MoveLocals, encoder,
                   acts, cco0, dispatched, lastOF>>
    /\ UNCHANGED Args

\* run_to_position, up to the first test of the loop
StepRunToPosition ==
    /\ ~Idle /\ Top.op = "run_to_position"
    /\ cmdlog' = Log(Command("set_motor_position", Top.a, Top.b, Top.c))
    /\ encoder' \in Readings(Top.b, Top.c)
    /\ stack' = <<Ins("rtp_while", Top.a, Top.b, Top.c, Top.by)>> \o Cont
    /\ seeks' = IF Top.a = MOTOR_TURN THEN seeks \cup {Top.b} ELSE seeks
    /\ UNCHANGED <<Robot, call, raised, MoveLocals, EncoderLast, EncoderNow, History>>
    /\ UNCHANGED <<cmds, style_arg, ccoCall, target0, spin_arg, Threads>>

\* run_to_position: one test of the loop, with its body or the return
StepRtpWhile ==
    /\ ~Idle /\ Top.op = "rtp_while"
    /\ IF OutsideWindow(encoder, Top.b, Top.c, Tolerance)
       THEN /\ encoder' \in Readings(Top.b, Top.c)
            /\ UNCHANGED stack
       ELSE /\ encoder' = 0
            /\ stack' = Cont
    /\ UNCHANGED <<Robot, call, raised, MoveLocals, EncoderLast, EncoderNow, cmdlog, History>>
    /\ UNCHANGED Args

\* the calls made directly by Move, in order
Note(entry) == IF Top.by = "Move" /\ ~Threaded THEN Append(acts, entry) ELSE acts

\* spin: the update of TurnTableTarget before the first run_to_position
StepSpin ==
    /\ ~Idle /\ Top.op = "spin"
    /\ LET o == SpinOvershoot(Top.a, Top.b)
           t == SpinFirstTarget(TurnTableTarget, Top.a, o)
       IN  /\ TurnTableTarget' = t
           /\ stack' = << Ins("spin_seek", 0, 0, 0, "spin"),
                          Ins("spin_return", Top.a, o, 0, Top.by) >> \o Cont
    /\ acts' = Note(<<Top.op, Top.a, Top.b>>)
    /\ UNCHANGED <<robot_style, CCO, hasTarget, call, raised, MoveLocals, PollLocals,
                   cmdlog, cco0, dispatched, sumDeg, lastOF>>
    /\ UNCHANGED Args

\* spin: a call of run_to_position on the turntable, its argument computed
\* from TurnTableTarget as it is when the call is made
StepSpinSeek ==
    /\ ~Idle /\ Top.op = "spin_seek"
    /\ stack' = <<RunTo(MOTOR_TURN, SpinSeekNum(TurnTableTarget, TurnTableGear),
                        TurnTablePinion, "spin")>> \o Cont
    /\ UNCHANGED <<Robot, call, raised, MoveLocals, PollLocals, cmdlog, History>>
    /\ UNCHANGED Args

\* spin: the test of overshoot, with the second run_to_position or the return
StepSpinReturn ==
    /\ ~Idle /\ Top.op = "spin_return"
    /\ IF Top.b # 0
       THEN LET t == SpinSecondTarget(TurnTableTarget, Top.b)
            IN  /\ TurnTableTarget' = t
                /\ stack' = << Ins("spin_seek", 0, 0, 0, "spin"),
                               Ins("spin_end", Top.a, Top.b, 0, Top.by) >> \o Cont
                /\ UNCHANGED sumDeg
       ELSE /\ stack' = Cont
            /\ sumDeg' = sumDeg + Top.a
            /\ UNCHANGED TurnTableTarget
    /\ UNCHANGED <<robot_style, CCO, hasTarget, call, raised, MoveLocals, PollLocals,
                   cmdlog, acts, cco0, dispatched, lastOF>>
    /\ UNCHANGED Args

\* spin: the return after the second run_to_position
StepSpinEnd ==
    /\ ~Idle /\ Top.op = "spin_end"
    /\ stack' = Cont
    /\ sumDeg' = sumDeg + Top.a
    /\ UNCHANGED <<Robot, call, raised, MoveLocals, PollLocals,
                   cmdlog, acts, cco0, dispatched, lastOF>>
    /\ UNCHANGED Args

StepGrab ==
    /\ ~Idle /\ Top.op = "grab"
    /\ cmdlog' = Log(Command("set_motor_limits", MOTOR_GRAB, MOTOR_GRAB_SPEED_GRAB, 1))
    /\ stack' = <<RunToGrab(MOTOR_GRAB_POSITION_GRAB, "grab")>> \o Cont
    /\ acts' = Note(<<Top.op, Top.a, Top.b>>)
    /\ UNCHANGED <<Robot, call, raised, MoveLocals, PollLocals, cco0, dispatched, sumDeg, lastOF>>
    /\ UNCHANGED Args

StepRelease ==
    /\ ~Idle /\ Top.op = "release"
    /\ cmdlog' = Log(Command("set_motor_limits", MOTOR_GRAB, MOTOR_GRAB_SPEED_REST, 1))
    /\ stack' = <<RunToGrab(MOTOR_GRAB_POSITION_REST, "release")>> \o Cont
    /\ acts' = Note(<<Top.op, Top.a, Top.b>>)
    /\ UNCHANGED <<Robot, call, raised, MoveLocals, PollLocals, cco0, dispatched, sumDeg, lastOF>>
    /\ UNCHANGED Args

\* flip: the body, as the calls it makes
StepFlip ==
    /\ ~Idle /\ Top.op = "flip"
    /\ stack' = FlipBody(Top.b) \o Cont
    /\ acts' = Note(<<Top.op, Top.a, Top.b>>)
    /\ UNCHANGED <<Robot, call, raised, MoveLocals, PollLocals, cmdlog,
                   cco0, dispatched, sumDeg, lastOF>>
    /\ UNCHANGED Args

StepSetLimits ==
    /\ ~Idle /\ Top.op = "set_motor_limits"
    /\ cmdlog' = Log(Command("set_motor_limits", Top.a, Top.b, Top.c))
    /\ stack' = Cont
    /\ UNCHANGED <<Robot, call, raised, MoveLocals, PollLocals, History>>
    /\ UNCHANGED Args

\* Moves: one iteration of the for loop, or the statement after it
StepMovesFor ==
    /\ ~Idle /\ Top.op = "Moves_for"
    /\ IF pending # <<>>
       THEN /\ cmd' = Head(pending)
            /\ pending' = Tail(pending)
            /\ stack' = <<Ins("Move", 0, 0, 0, "Moves")>> \o stack
       ELSE /\ stack' = <<RunToGrab(MOTOR_GRAB_POSITION_REST, "Moves")>> \o Cont
            /\ UNCHANGED <<cmd, pending>>
    /\ UNCHANGED <<Robot, call, raised, DegreesToTurnFace, FaceToTurn, tmp, PollLocals,
                   cmdlog, History>>
    /\ UNCHANGED Args

\* Move: the parse of the token
StepMove ==
    /\ ~Idle /\ Top.op = "Move"
    /\ DegreesToTurnFace' = ParseDegrees(cmd)
    /\ FaceToTurn' = ParseFace(cmd)
    /\ stack' = <<Ins("Move_dispatch", 0, 0, 0, Top.by)>> \o Cont
    /\ acts' = <<>>
    /\ cco0' = CCO
    /\ UNCHANGED <<Robot, call, raised, pending, cmd, tmp, PollLocals,
                   cmdlog, dispatched, sumDeg, lastOF>>
    /\ UNCHANGED Args

\* Move: the if/elif chain is evaluated and the body of its branch, then the
\* face turn, become the statements to run; reading FaceToTurn unassigned raises
StepMoveDispatch ==
    /\ ~Idle /\ Top.op = "Move_dispatch"
    /\ IF FaceToTurn = Unbound
       THEN Raise("UnboundLocalError")
       ELSE /\ stack' = RowBody(DispatchRow(FaceToTurn, CCO))
                        \o FaceTurnBody(DegreesToTurnFace)
                        \o <<Ins("Move_return", 0, 0, 0, Top.by)>>
                        \o Cont
            /\ UNCHANGED <<raised, MoveLocals>>
    /\ UNCHANGED <<Robot, call, PollLocals, cmdlog, History>>
    /\ UNCHANGED Args

\* Move: one assignment of the orientation update
StepAssign ==
    /\ ~Idle /\ Top.op \in AssignOps
    /\ stack' = Cont
    /\ LET after == AssignEffect(Top, [cco |-> CCO, tmp |-> tmp])
       IN  /\ CCO' = after.cco
           /\ tmp' = after.tmp
    /\ lastOF' = CASE Top.op = "CCO_OF" -> <<CCO[Top.b + 1], OF(CCO[Top.b + 1])>>
                   [] Top.op = "CCO_OFTMP" -> <<tmp, OF(tmp)>>
                   [] OTHER -> lastOF
    /\ UNCHANGED <<robot_style, TurnTableTarget, hasTarget, call, raised, pending, cmd,
                   DegreesToTurnFace, FaceToTurn, PollLocals, cmdlog,
                   acts, cco0, dispatched, sumDeg>>
    /\ UNCHANGED Args

\* Move returns: its locals are gone
StepMoveReturn ==
    /\ ~Idle /\ Top.op = "Move_return"
    /\ stack' = Cont
    /\ dispatched' = Append(dispatched, cmd)
    /\ cmd' = <<>>
    /\ DegreesToTurnFace' = 0
    /\ FaceToTurn' = Unbound
    /\ tmp' = Unbound
    /\ UNCHANGED <<Robot, call, raised, pending, PollLocals, cmdlog, acts, cco0, sumDeg, lastOF>>
    /\ UNCHANGED Args

\* CameraReadFaceColors: the external tools answer, or their output cannot be parsed
StepCamera ==
    /\ ~Idle /\ Top.op = "CameraReadFaceColors"
    /\ \/ /\ stack' = Cont
          /\ UNCHANGED <<raised, MoveLocals>>
       \/ Raise("IndexError")
    /\ UNCHANGED <<Robot, call, PollLocals, cmdlog, History>>
    /\ UNCHANGED Args

\* ReadCubeColors: self.CCO = [5, 1, 0]
StepScanCommit ==
    /\ ~Idle /\ Top.op = "CCO_SCAN"
    /\ CCO' = <<5, 1, 0>>
    /\ stack' = Cont
    /\ UNCHANGED <<robot_style, TurnTableTarget, hasTarget, call, raised, MoveLocals,
                   PollLocals, cmdlog, History>>
    /\ UNCHANGED Args

Next ==
    \/ \E style \in Styles : Construct(style)
    \/ CallHomeAll
    \/ \E deg \in SpinDegrees, overshoot \in SpinOvershoots : CallSpin(deg, overshoot)
    \/ \E string \in CmdStrings : CallMoves(string)
    \/ CallReadCubeColors
    \/ \E release \in {0, 1} : CallFlip(release)
    \/ CallGrab
    \/ CallRelease
    \/ \E arg \in RunToPositionArgs : CallRunToPosition(arg[1], arg[2])
    \/ StepHomeAll
    \/ StepHomeWhile
    \/ StepRunToPosition
    \/ StepRtpWhile
    \/ StepSpin
    \/ StepSpinSeek
    \/ StepSpinReturn
    \/ StepSpinEnd
    \/ StepGrab
    \/ StepRelease
    \/ StepFlip
    \/ StepSetLimits
    \/ StepMovesFor
    \/ StepMove
    \/ StepMoveDispatch
    \/ StepAssign
    \/ StepMoveReturn
    \/ StepCamera
    \/ StepScanCommit

Spec == Init /\ [][Next]_vars

----------------------------------------------------------------------------
(* Two threads that each call Move on the same instance, without a lock    *)

\* the frames and locals of the running thread
Context == <<stack, pending, cmd, DegreesToTurnFace, FaceToTurn, tmp, encoder>>

\* a thread about to run Move(token)
MoveThread(token) == <<<<Ins("Move", 0, 0, 0, "api")>>, <<>>, token, 0, Unbound, Unbound, 0>>

\* the running thread is between the first and the last statement of its Move
MidMove == ~Idle /\ Top.op # "Move"

\* the interpreter switches threads between two statements; the thread
\* switched to has statements left to run
Switch ==
    /\ Threaded
    /\ other[1] # <<>>
    /\ other' = Context
    /\ stack' = other[1]
    /\ pending' = other[2]
    /\ cmd' = other[3]
    /\ DegreesToTurnFace' = other[4]
    /\ FaceToTurn' = other[5]
    /\ tmp' = other[6]
    /\ encoder' = other[7]
    /\ preempted' = (preempted \/ MidMove)
    /\ UNCHANGED <<Robot, call, raised, EncoderLast, EncoderNow, cmdlog, History>>
    /\ UNCHANGED <<cmds, style_arg, ccoCall, target0, spin_arg, seeks>>

\* a homed instance in the canonical orientation and two threads at the
\* first statement of Move
InitThreads ==
    /\ robot_style \in {"NXT1", "EV3"}
    /\ style_arg = robot_style
    /\ CCO = <<0, 1, 2>>
    /\ TurnTableTarget = 0
    /\ hasTarget = TRUE
    /\ call = "Move"
    /\ raised = "none"
    /\ \E first \in ThreadTokens :
          /\ stack = MoveThread(first)[1]
          /\ cmd = first
    /\ \E second \in ThreadTokens : other = MoveThread(second)
    /\ pending = <<>>
    /\ DegreesToTurnFace = 0
    /\ FaceToTurn = Unbound
    /\ tmp = Unbound
    /\ encoder = 0
    /\ EncoderLast = 0
    /\ EncoderNow = 0
    /\ cmdlog = <<>>
    /\ acts = <<>>
    /\ cco0 = <<0, 1, 2>>
    /\ dispatched = <<>>
    /\ cmds = <<>>
    /\ sumDeg = 0
    /\ lastOF = <<>>
    /\ ccoCall = <<0, 1, 2>>
    /\ target0 = 0
    /\ spin_arg = <<>>
    /\ preempted = FALSE
    /\ seeks = {}

NextThreads ==
    \/ Switch
    \/ StepMove
    \/ StepMoveDispatch
    \/ StepAssign
    \/ StepMoveReturn
    \/ StepFlip
    \/ StepGrab
    \/ StepRelease
    \/ StepSetLimits
    \/ StepSpin
    \/ StepSpinSeek
    \/ StepSpinReturn
    \/ StepSpinEnd
    \/ StepRunToPosition
    \/ StepRtpWhile

SpecThreads == InitThreads /\ [][NextThreads]_vars

----------------------------------------------------------------------------
(* Properties                                                              *)

\* an orientation whose entries are pairwise distinct and pairwise non-opposite
ValidOrientation(o) ==
    /\ \A i \in 1..3 : o[i] \in Faces
    /\ \A i, j \in 1..3 : i # j => (o[i] # o[j] /\ o[i] # OF(o[j]))

\* a Move has started its branch body and has not returned
InMoveBody == \E i \in DOMAIN stack : stack[i].op = "Move_return"

AtMoveReturn == ~Idle /\ Top.op = "Move_return"

\* C1: in every state outside the body of a Move (so after every completed
\* Move, from the canonical orientation and from the post-scan orientation)
\* the entries of CCO are pairwise distinct and pairwise non-opposite.
C1_OrientationInvariant == ~InMoveBody => ValidOrientation(CCO)

\* a Move entered at the post-scan orientation has completed and changed it
C1_Witness ==
    /\ Idle /\ call = "Moves" /\ raised = "none"
    /\ Len(dispatched) = 1
    /\ cco0 = <<5, 1, 0>>
    /\ CCO # cco0

\* the transition table of the specification, with opposite(f) = (f + 3) mod 6
Opp(f) == (f + 3) % 6

TableRows == {"U", "F", "R", "OF(U)", "OF(F)", "OF(R)"}

TableMatches(row, f, o) ==
    CASE row = "U" -> f = o[1]
      [] row = "F" -> f = o[2]
      [] row = "R" -> f = o[3]
      [] row = "OF(U)" -> f = Opp(o[1])
      [] row = "OF(F)" -> f = Opp(o[2])
      [] row = "OF(R)" -> f = Opp(o[3])

TableActions(row) ==
    CASE row = "U" -> << <<"flip", 0, 0>>, <<"flip", 0, 0>> >>
      [] row = "F" -> << <<"release", 0, 0>>, <<"spin", 180, 0>>, <<"flip", 0, 0>> >>
      [] row = "R" -> << <<"release", 0, 0>>, <<"spin", -90, 0>>, <<"flip", 0, 0>> >>
      [] row = "OF(U)" -> << >>
      [] row = "OF(F)" -> << <<"flip", 0, 0>> >>
      [] row = "OF(R)" -> << <<"release", 0, 0>>, <<"spin", 90, 0>>, <<"flip", 0, 0>> >>

\* the update of a flip: tmp = U; U = F; F = OF(tmp)
TableFlip(o) == <<o[2], Opp(o[1]), o[3]>>

TableUpdate(row, o) ==
    CASE row = "U" -> <<Opp(o[1]), Opp(o[2]), o[3]>>
      [] row = "F" -> TableFlip(<<o[1], Opp(o[2]), Opp(o[3])>>)
      [] row = "R" -> TableFlip(<<o[1], Opp(o[3]), o[2]>>)
      [] row = "OF(U)" -> o
      [] row = "OF(F)" -> TableFlip(o)
      [] row = "OF(R)" -> TableFlip(<<o[1], o[3], Opp(o[2])>>)

FaceTurnActions(deg) == << <<"grab", 0, 0>>, <<"spin", deg, 22>> >>

\* the orientation after the assignments of a statement list, run in order
RECURSIVE RunAssignments(_, _)
RunAssignments(body, st) ==
    IF body = <<>> THEN st
    ELSE RunAssignments(Tail(body), AssignEffect(Head(body), st))

\* the calls of flip, release, spin and grab in a statement list, in order
IsCall(ins) == ins.op \in {"flip", "release", "spin", "grab"}

CallsOf(body) ==
    LET sel == SelectSeq(body, IsCall)
    IN  [i \in 1..Len(sel) |-> <<sel[i].op, sel[i].a, sel[i].b>>]

ValidOrientations == {o \in Faces \X Faces \X Faces : ValidOrientation(o)}

\* the statements Move runs for face f in orientation o, against the table
DispatchFollowsTable(f, o) ==
    LET body == RowBody(DispatchRow(f, o)) \o FaceTurnBody(-90)
    IN  \A row \in TableRows :
            TableMatches(row, f, o) =>
                /\ CallsOf(body) = TableActions(row) \o FaceTurnActions(-90)
                /\ RunAssignments(body, [cco |-> o, tmp |-> Unbound]).cco = TableUpdate(row, o)

TableOnEveryOrientation ==
    \A o \in ValidOrientations, f \in Faces :
        /\ Cardinality({row \in TableRows : TableMatches(row, f, o)}) = 1
        /\ DispatchFollowsTable(f, o)

\* C2: when a Move returns, exactly one row of the transition table matched the
\* requested face in the orientation the Move was entered with, the calls Move
\* made are that row's actions followed by grab and spin(rotation, 22), and
\* CCO is that row's update of the entry orientation; the statements Move
\* selects agree with the table on every orientation that satisfies the
\* invariant, the mirror images that no sequence of moves reaches included.
C2_MoveFollowsTable ==
    /\ AtMoveReturn =>
          /\ Cardinality({row \in TableRows : TableMatches(row, FaceToTurn, cco0)}) = 1
          /\ \A row \in TableRows :
                TableMatches(row, FaceToTurn, cco0) =>
                    /\ acts = TableActions(row) \o FaceTurnActions(DegreesToTurnFace)
                    /\ CCO = TableUpdate(row, cco0)
    /\ TableOnEveryOrientation

\* token "R" from [Up, Front, Right]
C2_Witness ==
    /\ AtMoveReturn
    /\ cmd = <<"R">>
    /\ cco0 = <<0, 1, 2>>
    /\ acts = << <<"release", 0, 0>>, <<"spin", -90, 0>>, <<"flip", 0, 0>>,
                 <<"grab", 0, 0>>, <<"spin", -90, 22>> >>
    /\ CCO = <<5, 3, 1>>

\* Move is about to issue the grab or the spin of the face turn
AtFaceTurnCall ==
    /\ ~Idle
    /\ Top.by = "Move"
    /\ \/ Top.op = "grab"
       \/ Top.op = "spin" /\ Top.b = RecoverFace

\* C3: whenever Move issues the grab and the spin(rotation, 22) of the face
\* turn, the requested face is the one opposite the tracked Up face.
C3_TargetAtBottom == AtFaceTurnCall => FaceToTurn = Opp(CCO[1])

\* the face turn is issued after a reorientation that ends in a flip
C3_Witness ==
    /\ AtFaceTurnCall
    /\ Top.op = "grab"
    /\ Len(acts) = 3
    /\ FaceToTurn = 4
    /\ CCO[1] = 1

\* C10: OF(f) = (f + 3) mod 6, OF(OF(f)) = f and OF(f) # f for every face,
\* and every OF that Move evaluates obeys it.
C10_OppositeFace ==
    /\ \A f \in Faces : OF(f) = (f + 3) % 6 /\ OF(OF(f)) = f /\ OF(f) # f
    /\ lastOF # <<>> =>
          /\ lastOF[1] \in Faces
          /\ lastOF[2] = (lastOF[1] + 3) % 6
          /\ OF(lastOF[2]) = lastOF[1]
          /\ lastOF[2] # lastOF[1]

\* Move has evaluated OF of a face of the upper half (the subtracting branch)
C10_Witness == lastOF = <<4, 1>>

\* a spin call has moved the target and has not returned
SpinRunning == \E i \in DOMAIN stack : stack[i].op \in {"spin_return", "spin_end"}

\* C4 (as amended): after homing, whenever no spin call is in progress,
\* TurnTableTarget is the negated sum of the deg arguments of the completed
\* spin calls; the overshoot of each call nets to zero.
C4_TargetIsNegatedSum == (hasTarget /\ ~SpinRunning) => TurnTableTarget = -sumDeg

\* C4 as stated: TurnTableTarget equals the sum of the deg arguments.
C4_TargetIsSum == (hasTarget /\ ~SpinRunning) => TurnTableTarget = sumDeg

\* a direct spin(-90, overshoot # 0) has completed with its two seeks
C4_Witness ==
    /\ Idle /\ call = "spin"
    /\ Len(cmdlog) = 2
    /\ cmdlog[1] # cmdlog[2]
    /\ sumDeg = -90
    /\ TurnTableTarget = 90

Has(c, ch) == \E i \in 1..Len(c) : c[i] = ch

FaceLetters == <<"U", "F", "R", "D", "B", "L">>

\* the faces named in a token, as positions in the priority order
TokenFaces(c) == {k \in 1..6 : Has(c, FaceLetters[k])}

TokenDegrees(c) == IF Has(c, "'") THEN 90 ELSE IF Has(c, "2") THEN -180 ELSE -90

AtDispatch == ~Idle /\ Top.op = "Move_dispatch"

\* C5: once Move has parsed its token, the rotation is 90 if the token
\* contains ', else -180 if it contains 2, else -90, and the face is the first
\* of U, F, R, D, B, L that occurs in the token, as 0..5; "U2" from the
\* canonical orientation makes two flips, then grab and spin(-180, 22).
C5_TokenParse ==
    /\ AtDispatch =>
          /\ DegreesToTurnFace = TokenDegrees(cmd)
          /\ (Has(cmd, "'") /\ Has(cmd, "2")) => DegreesToTurnFace = 90
          /\ TokenFaces(cmd) # {} =>
                /\ FaceToTurn + 1 \in TokenFaces(cmd)
                /\ \A k \in TokenFaces(cmd) : FaceToTurn + 1 <= k
    /\ (AtMoveReturn /\ cmd = <<"U", "2">> /\ cco0 = <<0, 1, 2>>) =>
          acts = << <<"flip", 0, 0>>, <<"flip", 0, 0>>, <<"grab", 0, 0>>, <<"spin", -180, 22>> >>

\* "U2" from the canonical orientation has run
C5_Witness ==
    /\ AtMoveReturn
    /\ cmd = <<"U", "2">>
    /\ cco0 = <<0, 1, 2>>
    /\ DegreesToTurnFace = -180
    /\ FaceToTurn = 0
    /\ Len(acts) = 4

\* Move has issued, or is about to issue, the grab of its face turn
FaceTurnRunning ==
    /\ InMoveBody
    /\ \/ Top.op = "grab" /\ Top.by = "Move"
       \/ \A i \in DOMAIN stack : ~(stack[i].op = "grab" /\ stack[i].by = "Move")

\* C6: no step of the face turn (grab, spin(rotation, 22)) changes CCO, and a
\* Move whose face is opposite the Up face on entry makes no call but grab and
\* spin(rotation, 22) and returns with CCO as on entry.
C6_FaceTurnKeepsOrientation ==
    /\ []((AtMoveReturn /\ FaceToTurn = Opp(cco0[1])) =>
            (acts = FaceTurnActions(DegreesToTurnFace) /\ CCO = cco0))
    /\ [][FaceTurnRunning => CCO' = CCO]_vars

\* token "D" from the canonical orientation
C6_Witness ==
    /\ AtMoveReturn
    /\ cmd = <<"D">>
    /\ cco0 = <<0, 1, 2>>
    /\ acts = << <<"grab", 0, 0>>, <<"spin", -90, 22>> >>
    /\ CCO = <<0, 1, 2>>

\* the whitespace-separated tokens of a string: the maximal runs of
\* characters other than the blank, in order of their first character
TokenStarts(s) == {i \in 1..Len(s) : s[i] # " " /\ (i = 1 \/ s[i - 1] = " ")}

TokenEnd(s, i) ==
    CHOOSE j \in i..Len(s) :
        /\ \A k \in i..j : s[k] # " "
        /\ j = Len(s) \/ s[j + 1] = " "

Tokens(s) ==
    LET nth(k) == CHOOSE i \in TokenStarts(s) :
                      Cardinality({j \in TokenStarts(s) : j < i}) = k - 1
    IN  [k \in 1..Cardinality(TokenStarts(s)) |-> SubSeq(s, nth(k), TokenEnd(s, nth(k)))]

\* the position of the first token naming no face, past the end when none
FirstFaceless(toks) ==
    IF \E k \in 1..Len(toks) : TokenFaces(toks[k]) = {}
    THEN CHOOSE k \in 1..Len(toks) :
            /\ TokenFaces(toks[k]) = {}
            /\ \A j \in 1..(k - 1) : TokenFaces(toks[j]) # {}
    ELSE Len(toks) + 1

RestCommand == <<"set_motor_position", 0, -35, 1>>

EndsAtRest == cmdlog # <<>> /\ cmdlog[Len(cmdlog)] = RestCommand

\* C7 (as amended): Moves runs Move on the tokens of cmds in order, one
\* after the other; when every token names a face, every token is dispatched
\* exactly once and the last actuator command is the grip to Rest (also for
\* the empty string); at the first token that names no face Move raises
\* UnboundLocalError, the tokens before it have been dispatched, no later
\* token is, and the grip is not driven to Rest.
C7_MovesInOrder ==
    call = "Moves" =>
        LET toks == Tokens(cmds)
            bad == FirstFaceless(toks)
        IN  /\ raised = "none" =>
                  dispatched \o (IF cmd # <<>> THEN <<cmd>> ELSE <<>>) \o pending = toks
            /\ (Idle /\ raised = "none") =>
                  /\ bad > Len(toks)
                  /\ dispatched = toks
                  /\ EndsAtRest
            /\ (Idle /\ raised # "none") =>
                  /\ raised = "UnboundLocalError"
                  /\ bad <= Len(toks)
                  /\ dispatched = SubSeq(toks, 1, bad - 1)
                  /\ ~EndsAtRest

\* C7 as stated: every Moves call dispatches every token and ends at Rest.
C7_EveryTokenThenRest ==
    (Idle /\ call = "Moves") => (dispatched = Tokens(cmds) /\ EndsAtRest)

\* Moves(" D  L ") has completed
C7_Witness ==
    /\ Idle /\ call = "Moves" /\ raised = "none"
    /\ cmds = <<" ", "D", " ", " ", "L", " ">>
    /\ dispatched = << <<"D">>, <<"L">> >>
    /\ EndsAtRest

\* position - tolerance <= reading <= position + tolerance, position = num/den
InWindow(enc, num, den, tolerance) ==
    /\ num - tolerance * den <= enc * den
    /\ enc * den <= num + tolerance * den

\* C8: run_to_position tests a reading before it can return; at each test
\* of a polled reading it returns if the reading lies within
\* [position - 3, position + 3] and otherwise stays in the loop.
C8_ReturnsIffInWindow ==
    [][ /\ (~Idle /\ Top.op = "run_to_position") =>
              (Len(stack') = Len(stack) /\ stack'[1].op = "rtp_while")
        /\ (~Idle /\ Top.op = "rtp_while") =>
              IF InWindow(encoder, Top.b, Top.c, 3)
              THEN stack' = Cont
              ELSE stack' = stack ]_vars

\* the turntable seeks a fractional position and the reading polled is less
\* than one unit below the window
C8_Witness ==
    /\ ~Idle /\ Top.op = "rtp_while"
    /\ Top.a = 1
    /\ Top.b % Top.c # 0
    /\ encoder = (Top.b \div Top.c) - 3
    /\ InMoveBody

\* C9: a constructor call with a style other than "NXT1" and "EV3" ends at
\* once with ValueError: no instance is configured, no command has been sent
\* to the driver, homing is not started, TurnTableTarget is not assigned and
\* CCO is the class value.
C9_UnsupportedStyleFails ==
    (call = "__init__" /\ style_arg \notin {"NXT1", "EV3"}) =>
        /\ raised = "ValueError"
        /\ Idle
        /\ robot_style = "none"
        /\ cmdlog = <<>>
        /\ ~hasTarget
        /\ TurnTableTarget = 0
        /\ CCO = <<0, 1, 2>>

C9_Witness ==
    /\ call = "__init__"
    /\ style_arg = "NXT2"
    /\ raised = "ValueError"
    /\ Idle

----------------------------------------------------------------------------
(* C11: order of the orientation updates                                   *)

\* the branches of Move that change CCO
ReorientingRows == {"top", "front", "right", "back", "left"}

\* the orientation after the assignments of one branch of Move
RowUpdate(row, o) == RunAssignments(RowBody(row), [cco |-> o, tmp |-> Unbound]).cco

RowTwice(row, o) == RowUpdate(row, RowUpdate(row, o))

\* the branches taken by the first and the second Move of a Moves call that
\* has dispatched two tokens
FirstRow == DispatchRow(ParseFace(dispatched[1]), ccoCall)
SecondRow == DispatchRow(ParseFace(dispatched[2]), cco0)

SameRowTwice ==
    /\ Idle /\ call = "Moves" /\ raised = "none"
    /\ Len(dispatched) = 2
    /\ FirstRow = SecondRow
    /\ FirstRow \in ReorientingRows

Order2Rows(rows) ==
    \A o \in ValidOrientations, row \in ReorientingRows :
        (RowTwice(row, o) = o) <=> (row \in rows)

TopAndFrontOfOrder2 == Order2Rows({"top", "front"})

\* C11 (as claimed): the top branch is the only one whose update, applied
\* twice, gives back the orientation it started from.
C11_OnlyTopRowOfOrder2 ==
    SameRowTwice => ((CCO = ccoCall) <=> (FirstRow = "top"))

\* C11: the updates of the top branch and of the front branch are of order 2,
\* on every orientation that satisfies the invariant; the updates of the
\* right, back and left branches, applied twice, never give back the
\* orientation they started from.  Two Moves in a row that take the same
\* branch end in the orientation they started from exactly when that branch
\* is top or front.
C11_TopAndFrontRowsOfOrder2 ==
    /\ TopAndFrontOfOrder2
    /\ SameRowTwice => ((CCO = ccoCall) <=> (FirstRow \in {"top", "front"}))

\* "F D" from [Up, Front, Right]: the front branch twice
C11_Witness ==
    /\ SameRowTwice
    /\ FirstRow = "front"
    /\ ccoCall = <<0, 1, 2>>
    /\ CCO = ccoCall

----------------------------------------------------------------------------
(* C12: a token that names no face                                         *)

FacelessAtDispatch == AtDispatch /\ TokenFaces(cmd) = {}

\* C12 (as claimed): the Move of a token that names no face, run after another
\* Move of the same Moves call, dispatches on the face of that earlier Move.
C12_StaleFaceDispatched ==
    (FacelessAtDispatch /\ dispatched # <<>>) =>
        FaceToTurn + 1 \in TokenFaces(dispatched[Len(dispatched)])

\* C12: a token containing none of U, F, R, D, B, L leaves FaceToTurn
\* unassigned, also when an earlier Move has assigned its own FaceToTurn; the
\* first comparison of the dispatch then raises UnboundLocalError, and the
\* call ends there without a command to the motors and without a change of
\* CCO or of TurnTableTarget.
C12_FacelessTokenRaises ==
    /\ [](FacelessAtDispatch => FaceToTurn = Unbound)
    /\ [][FacelessAtDispatch =>
            /\ raised' = "UnboundLocalError"
            /\ stack' = <<>>
            /\ CCO' = CCO
            /\ TurnTableTarget' = TurnTableTarget
            /\ cmdlog' = cmdlog
            /\ dispatched' = dispatched]_vars

\* Moves("D X F"): D has been dispatched, X has raised
C12_Witness ==
    /\ Idle /\ call = "Moves"
    /\ raised = "UnboundLocalError"
    /\ cmds = <<"D", " ", "X", " ", "F">>
    /\ dispatched = << <<"D">> >>
    /\ acts = <<>>
    /\ CCO = cco0

----------------------------------------------------------------------------
(* C13: homing and the orientation                                         *)

Homing == call \in {"home_all", "__init__"}

\* C13 (as claimed): when home_all has completed, called directly or by the
\* constructor, CCO is [0, 1, 2].
C13_HomeAllResetsOrientation ==
    (Idle /\ Homing /\ raised = "none") => CCO = <<0, 1, 2>>

\* C13: home_all, called directly or by the constructor, never assigns CCO:
\* during and after the call CCO is what it was when the call was made, which
\* is [0, 1, 2] for the constructor of the instance and whatever the earlier
\* Moves and scans left for a later home_all.
C13_HomeAllKeepsOrientation ==
    /\ Homing => CCO = ccoCall
    /\ call = "__init__" => CCO = <<0, 1, 2>>

\* home_all has completed after moves that left the cube and the table turned
C13_Witness ==
    /\ Idle /\ call = "home_all" /\ raised = "none"
    /\ ccoCall # <<0, 1, 2>>
    /\ CCO = ccoCall
    /\ target0 # 0
    /\ TurnTableTarget = 0

----------------------------------------------------------------------------
(* C14: who writes the orientation                                         *)

\* the head of the stack is an orientation assignment of Move
AtMoveAssignment == ~Idle /\ Top.op \in AssignOps /\ Top.by = "Move"

\* the head of the stack is the assignment of CCO that ends ReadCubeColors
AtScanCommit == ~Idle /\ Top.op = "CCO_SCAN" /\ Top.by = "ReadCubeColors"

\* C14 (as claimed): no public method other than Moves ever changes CCO.
C14_OnlyMoveWrites == call # "Moves" => CCO = ccoCall

\* C14: CCO is written by the orientation assignments of Move and by the last
\* statement of ReadCubeColors, which sets it to [5, 1, 0], and by nothing
\* else: spin, flip, grab, release, run_to_position and home_all called
\* directly leave it as it was when they were called, and inside Moves and
\* ReadCubeColors no call of them, the return to Rest that ends Moves
\* included, changes it.
C14_MoveAndScanWriteOrientation ==
    /\ [](call \notin {"Moves", "ReadCubeColors"} => CCO = ccoCall)
    /\ [](call = "ReadCubeColors" => CCO \in {ccoCall, <<5, 1, 0>>})
    /\ [][CCO' # CCO => (AtMoveAssignment \/ AtScanCommit)]_vars

\* a scan started in another orientation has completed
C14_Witness ==
    /\ Idle /\ call = "ReadCubeColors" /\ raised = "none"
    /\ CCO = <<5, 1, 0>>
    /\ ccoCall = <<3, 4, 2>>

----------------------------------------------------------------------------
(* C15: the seeks of spin                                                  *)

\* a spin called directly has returned
SpinDone == Idle /\ call = "spin" /\ raised = "none"

\* the command of a turntable seek to target t
Seek(t) == <<"set_motor_position", 1, t * TurnTableGear, TurnTablePinion>>

\* the targets of the seeks of spin(deg, overshoot) called at target0
SeekOvershoot == IF spin_arg[1] < 0 THEN -spin_arg[2] ELSE spin_arg[2]
FirstSeek == target0 - (spin_arg[1] + SeekOvershoot)
FinalSeek == target0 - spin_arg[1]

\* the first seek lies past the final one, seen from the target at the call
FirstSeekBeyond == (FinalSeek - target0) * (FirstSeek - FinalSeek) > 0

\* C15 (as claimed): every spin with overshoot # 0 seeks first a position
\* beyond the final one in the direction of travel.
C15_FirstSeekAlwaysBeyond ==
    (SpinDone /\ spin_arg[2] # 0) => (Len(cmdlog) = 2 /\ FirstSeekBeyond)

\* C15: spin(deg, overshoot) with overshoot # 0 issues exactly two seeks, the
\* first to target - (deg + o) with o = -overshoot when deg < 0 and overshoot
\* otherwise, the second to that target + o, which is target - deg; with
\* overshoot = 0 it issues the one seek to target - deg.  TurnTableTarget ends
\* at target - deg whatever readings the encoder returned.  The first seek
\* lies beyond the final one in the direction of travel when overshoot > 0
\* and deg # 0.
C15_SpinSeeks ==
    SpinDone =>
        /\ TurnTableTarget = FinalSeek
        /\ IF spin_arg[2] # 0
           THEN cmdlog = <<Seek(FirstSeek), Seek(FinalSeek)>>
           ELSE cmdlog = <<Seek(FinalSeek)>>
        /\ (spin_arg[2] > 0 /\ spin_arg[1] # 0) => FirstSeekBeyond

\* spin(-90, 22) has returned
C15_Witness ==
    /\ SpinDone
    /\ spin_arg = <<-90, 22>>
    /\ Len(cmdlog) = 2
    /\ TurnTableTarget = target0 + 90

----------------------------------------------------------------------------
(* C16: the homing sequence                                                *)

AtStallTest == ~Idle /\ Top.op = "home_while"

HomeAllDone == Idle /\ Homing /\ raised = "none"

\* C16: the stall loop of home_all goes on, without a command, as long as the
\* last two grip readings differ; when they are equal home_all offsets the
\* grip encoder by (last reading - 25), commands the grip to Rest, offsets the
\* turntable encoder by a reading of it, sets TurnTableTarget to 0 and calls
\* spin(0), in this order; when home_all has completed TurnTableTarget is 0
\* and the last command is the turntable seek to 0.
C16_HomeAllSequence ==
    /\ [][AtStallTest =>
            IF EncoderNow # EncoderLast
            THEN /\ stack' = stack
                 /\ cmdlog' = cmdlog
                 /\ TurnTableTarget' = TurnTableTarget
                 /\ EncoderLast' = EncoderNow
            ELSE /\ Len(cmdlog') = Len(cmdlog) + 3
                 /\ SubSeq(cmdlog', 1, Len(cmdlog)) = cmdlog
                 /\ cmdlog'[Len(cmdlog) + 1] = <<"offset_motor_encoder", 0, EncoderLast - 25, 1>>
                 /\ cmdlog'[Len(cmdlog) + 2] = RestCommand
                 /\ cmdlog'[Len(cmdlog) + 3][1] = "offset_motor_encoder"
                 /\ cmdlog'[Len(cmdlog) + 3][2] = 1
                 /\ cmdlog'[Len(cmdlog) + 3][3] \in HomeReadings
                 /\ TurnTableTarget' = 0
                 /\ stack'[1].op = "spin"
                 /\ stack'[1].a = 0
                 /\ stack'[1].b = 0
                 /\ stack'[1].by = "home_all"]_vars
    /\ [](HomeAllDone =>
            /\ TurnTableTarget = 0
            /\ hasTarget
            /\ Len(cmdlog) >= 5
            /\ cmdlog[Len(cmdlog)] = Seek(0)
            /\ cmdlog[Len(cmdlog) - 1][1] = "offset_motor_encoder"
            /\ cmdlog[Len(cmdlog) - 2] = RestCommand
            /\ cmdlog[Len(cmdlog) - 3][1] = "offset_motor_encoder"
            /\ cmdlog[Len(cmdlog) - 4] = <<"set_motor_power", 0, 15, 1>>)

\* a home_all called with the table turned has completed; the grip stalled at 10
C16_Witness ==
    /\ HomeAllDone /\ call = "home_all"
    /\ target0 # 0
    /\ TurnTableTarget = 0
    /\ Len(cmdlog) = 5
    /\ cmdlog[2] = <<"offset_motor_encoder", 0, -15, 1>>

----------------------------------------------------------------------------
(* C17: two Move calls interleaved                                         *)

\* both threads have returned from Move
BothDone == Threaded /\ Idle /\ other[1] = <<>> /\ Len(dispatched) = 2

\* the face and the table row of a token in orientation o
TokenFace(c) == (CHOOSE k \in TokenFaces(c) : \A j \in TokenFaces(c) : k <= j) - 1
TokenRow(c, o) == CHOOSE row \in TableRows : TableMatches(row, TokenFace(c), o)

\* the spins of the Move of a token in orientation o, as <<"spin", deg, overshoot>>
IsSpin(act) == act[1] = "spin"
TokenSpins(c, o) ==
    SelectSeq(TableActions(TokenRow(c, o)) \o FaceTurnActions(TokenDegrees(c)), IsSpin)

\* the targets sought by a sequence of spins that starts at target t, and
\* the target it ends at
RECURSIVE SoughtBy(_, _)
SoughtBy(spins, t) ==
    IF spins = <<>> THEN {}
    ELSE LET deg == Head(spins)[2]
             o == IF deg < 0 THEN -Head(spins)[3] ELSE Head(spins)[3]
         IN  {t - (deg + o), t - deg} \cup SoughtBy(Tail(spins), t - deg)

RECURSIVE EndOf(_, _)
EndOf(spins, t) ==
    IF spins = <<>> THEN t ELSE EndOf(Tail(spins), t - Head(spins)[2])

\* the result of Move(c1) followed by Move(c2), by the transition table
SerialCCO(c1, c2) ==
    LET o1 == TableUpdate(TokenRow(c1, ccoCall), ccoCall)
    IN  TableUpdate(TokenRow(c2, o1), o1)

SerialSpins(c1, c2) ==
    TokenSpins(c1, ccoCall) \o TokenSpins(c2, TableUpdate(TokenRow(c1, ccoCall), ccoCall))

SerialSeeks(c1, c2) == {t * TurnTableGear : t \in SoughtBy(SerialSpins(c1, c2), target0)}

SerialTarget(c1, c2) == EndOf(SerialSpins(c1, c2), target0)

\* C17: two Move calls on one instance that are not switched out between
\* their first and their last statement leave what the transition table
\* gives for the order in which they returned: a valid orientation, the
\* turntable positions of that order and its target.  Only runs in which a
\* Move is switched out midway can end otherwise; such a run can end with an
\* orientation that breaks the invariant and is the result of neither serial
\* order, after commanding a turntable position that neither serial order
\* commands.
C17_UninterruptedMovesAreSerial ==
    (BothDone /\ ~preempted) =>
        /\ CCO = SerialCCO(dispatched[1], dispatched[2])
        /\ ValidOrientation(CCO)
        /\ seeks = SerialSeeks(dispatched[1], dispatched[2])
        /\ TurnTableTarget = SerialTarget(dispatched[1], dispatched[2])

\* two interleaved Move("B"): the orientation is invalid and not a serial
\* result, and a position outside both serial orders was commanded
C17_Witness ==
    /\ BothDone /\ preempted
    /\ dispatched = << <<"B">>, <<"B">> >>
    /\ ~ValidOrientation(CCO)
    /\ CCO # SerialCCO(dispatched[1], dispatched[2])
    /\ CCO # SerialCCO(dispatched[2], dispatched[1])
    /\ \E p \in seeks :
          /\ p \notin SerialSeeks(dispatched[1], dispatched[2])
          /\ p \notin SerialSeeks(dispatched[2], dispatched[1])

----------------------------------------------------------------------------
(* C18: the scan against the transition table                              *)

\* the update the table makes for a turn of the table by deg with the cube released
TableSpin(deg, o) ==
    CASE deg = 90 -> <<o[1], o[3], Opp(o[2])>>
      [] deg = -90 -> <<o[1], Opp(o[3]), o[2]>>
      [] deg = 180 -> <<o[1], Opp(o[2]), Opp(o[3])>>
      [] OTHER -> o

\* the rows that turn the table are that turn followed by a flip
TableSpinIsRowSpin ==
    \A o \in ValidOrientations :
        /\ TableUpdate("OF(R)", o) = TableFlip(TableSpin(90, o))
        /\ TableUpdate("R", o) = TableFlip(TableSpin(-90, o))
        /\ TableUpdate("F", o) = TableFlip(TableSpin(180, o))
        /\ TableUpdate("OF(F)", o) = TableFlip(o)

\* the orientation the table gives after the flips and spins of a statement list
RECURSIVE Tracked(_, _)
Tracked(body, o) ==
    IF body = <<>> THEN o
    ELSE Tracked(Tail(body),
                 CASE Head(body).op = "flip" -> TableFlip(o)
                   [] Head(body).op = "spin" -> TableSpin(Head(body).a, o)
                   [] OTHER -> o)

\* the statements of the scan before its i-th statement
ScanBefore(i) == SubSeq(ScanBody, 1, i - 1)

\* every camera read of the scan names the face the table has at Up, and
\* the table ends at [5, 1, 0]
ScanAgreesWithTable ==
    /\ \A i \in DOMAIN ScanBody :
          ScanBody[i].op = "CameraReadFaceColors" =>
              Tracked(ScanBefore(i), <<0, 1, 2>>)[1] = ScanBody[i].a
    /\ Tracked(ScanBody, <<0, 1, 2>>) = <<5, 1, 0>>
    /\ {ScanBody[i].a : i \in {j \in DOMAIN ScanBody : ScanBody[j].op = "CameraReadFaceColors"}}
          = Faces

\* ReadCubeColors is about to read a face
AtScanRead ==
    /\ ~Idle /\ call = "ReadCubeColors"
    /\ Top.op = "CameraReadFaceColors" /\ Top.by = "ReadCubeColors"

\* C18: applying the table's flip update and its updates for spin(90) and
\* spin(-90) to [0, 1, 2] along the statements of ReadCubeColors, the face at
\* Up at each camera read is the face that read names (top, front, bottom,
\* right, back, left as 0, 1, 3, 2, 4, 5), every face is read once, and the
\* orientation at the end is the [5, 1, 0] that the scan assigns to CCO.
C18_ScanFollowsTable ==
    /\ TableSpinIsRowSpin
    /\ ScanAgreesWithTable
    /\ AtScanRead =>
          Tracked(ScanBefore(Len(ScanBody) - Len(stack) + 1), <<0, 1, 2>>)[1] = Top.a
    /\ (Idle /\ call = "ReadCubeColors" /\ raised = "none") =>
          CCO = Tracked(ScanBody, <<0, 1, 2>>)

\* the scan is about to read the right face, after spin(90) and a flip
C18_Witness ==
    /\ AtScanRead
    /\ Top.a = 2
    /\ TurnTableTarget = target0 - 90
    /\ Tracked(ScanBefore(Len(ScanBody) - Len(stack) + 1), <<0, 1, 2>>) = <<2, 0, 1>>

----------------------------------------------------------------------------
(* C19: the grip when the table turns                                      *)

\* the positions the grip was sent to by the running public method, in order
GripMoves ==
    LET isGrip(c) == c[1] = "set_motor_position" /\ c[2] = 0
        sel == SelectSeq(cmdlog, isGrip)
    IN  [i \in 1..Len(sel) |-> sel[i][3]]

\* the position of the last grip move, every run_to_position being complete
\* when the next statement starts; 0 when the method has not moved the grip
LastGrip == IF GripMoves = <<>> THEN 0 ELSE GripMoves[Len(GripMoves)]

\* Move or ReadCubeColors is about to call spin
AtSpinCall == ~Idle /\ Top.op = "spin" /\ Top.by \in {"Move", "ReadCubeColors"}

\* C19: whenever Move or ReadCubeColors calls spin with a nonzero angle and
\* overshoot 0, the last grip move was to Rest (-35); whenever one of them
\* calls spin with overshoot 22, the last grip move was to Grab (-130); they
\* call spin in no other way.
C19_GripMatchesRotation ==
    AtSpinCall =>
        /\ Top.b \in {0, 22}
        /\ Top.b = 0 => (Top.a # 0 /\ LastGrip = -35)
        /\ Top.b = 22 => LastGrip = -130

\* the second Move of Moves("R F") is about to turn the released cube, after
\* the face turn of the first Move had the cube grabbed
C19_Witness ==
    /\ AtSpinCall
    /\ dispatched = << <<"R">> >>
    /\ Top.a = -90 /\ Top.b = 0
    /\ LastGrip = -35
    /\ \E i \in DOMAIN GripMoves : GripMoves[i] = -130

----------------------------------------------------------------------------
(* C20: handedness of the orientation                                      *)

\* the axis of a face (U/D, F/B, R/L) and the side of the axis it is on
Axis(f) == f % 3
Side(f) == IF f < 3 THEN 1 ELSE -1

\* the determinant of the signed permutation that takes [U, F, R] to o
Handedness(o) ==
    (IF (Axis(o[2]) - Axis(o[1])) % 3 = 1 THEN 1 ELSE -1)
        * Side(o[1]) * Side(o[2]) * Side(o[3])

\* a rotation of the canonical orientation
Proper(o) == ValidOrientation(o) /\ Handedness(o) = 1

ProperOrientations == {o \in ValidOrientations : Proper(o)}

\* 24 of the 48 valid triples are rotations, and a rotation is fixed by its
\* Up and Front entries
RotationsAreHalf ==
    /\ Cardinality(ValidOrientations) = 48
    /\ Cardinality(ProperOrientations) = 24
    /\ \A p, q \in ProperOrientations : (p[1] = q[1] /\ p[2] = q[2]) => p = q
    /\ Proper(<<0, 1, 2>>) /\ Proper(<<5, 1, 0>>)

\* the Right entry that makes <<u, f, r>> a rotation
RightOf(u, f) == CHOOSE r \in Faces : Proper(<<u, f, r>>)

\* C20: in every state outside the body of a Move, CCO is one of the 24
\* rotations of [0, 1, 2], never one of the 24 mirror images that are also
\* pairwise distinct and non-opposite, and its Right entry is the one that
\* its Up and Front entries determine.
C20_OrientationIsRotation ==
    /\ RotationsAreHalf
    /\ ~InMoveBody => (Proper(CCO) /\ CCO[3] = RightOf(CCO[1], CCO[2]))

\* Moves of two tokens, called in the post-scan orientation, has completed
C20_Witness ==
    /\ Idle /\ call = "Moves" /\ raised = "none"
    /\ ccoCall = <<5, 1, 0>>
    /\ Len(dispatched) = 2
    /\ CCO \notin {<<5, 1, 0>>, <<0, 1, 2>>}
    /\ Proper(CCO)

====
